---- MODULE Spec2Model ----
(***************************************************************************)
(* Model of android::hardware::MessageQueue<T> (fast_msgq/common/          *)
(* MessageQueue.h): a single-producer / single-consumer byte ring over     *)
(* shared memory with two 64-bit position counters.                        *)
(*                                                                         *)
(* The shared memory holds the write counter W (behind mWritePtr), the    *)
(* read counter R (behind mReadPtr) and the data ring.  Two endpoints are  *)
(* bound to it: "writer" only calls write(), "reader" only calls read().   *)
(* Every atomic load, atomic store and copied byte of a call is one step,  *)
(* so the two endpoints interleave at that grain.                          *)
(***************************************************************************)
EXTENDS Integers, Sequences, FiniteSets, TLC

(* ------------------------------ bounds -------------------------------- *)
\* largest descriptor size (getSize(), bytes of the data ring) explored
MaxSize == 4
\* largest record count passed to write(data, count) / read(data, count)
MaxCount == 2
\* total number of bytes the producer may have accepted in one behaviour
MaxBytes == 6
\* width of the counters and of size_t in the model (64 in the program)
CounterBits == 4
\* width of int and of a grantor's unsigned fields in the model (32 in the
\* program); an address, a size_t and an off_t are twice as wide
IntBits == 3

(* --------------------------- program values --------------------------- *)
\* sizeof(T): the record width the template is instantiated with
SizeofT == 2
\* MQDescriptor::kMinGrantorCount: the three fixed grantor positions
kMinGrantorCount == 3
\* PAGE_SIZE, scaled to the model's integer widths (4096 in the program)
PAGE_SIZE == 4

Wrap == 2 ^ CounterBits
Sizes == (MaxSize - 1) .. MaxSize
Data == {1, 2}
Endpoints == {"writer", "reader"}
\* a pointer member is null, points at its mapped region, or is indeterminate
NULLPTR == "null"
MAPPED == "mapped"
WILD == "wild"
\* "not loaded yet" for a local that holds a counter value
None == -1
\* the fixed grantor positions MQDescriptor names
READPTRPOS == "READPTRPOS"
WRITEPTRPOS == "WRITEPTRPOS"
DATAPTRPOS == "DATAPTRPOS"

VARIABLES
    W, R, ring,            \* shared memory: *mWritePtr, *mReadPtr, mRing[0..size-1]
    old, unpub, pub,       \* consumer-side visibility of the producer's ring stores
    desc, life,            \* per endpoint: mDesc, and where the object's life is
    mReadPtr, mWritePtr, mRing,   \* per endpoint: the three pointer members
    wpc, wCount, wData, wAvail, wTx, wIdx, wPtr, wRes,   \* the producer's call
    rpc, rCount, rBuf, rAvail, rTx, rIdx, rPtr, rRes,    \* the consumer's call
    written, delivered,    \* history: bytes accepted by writes, delivered by reads
    rdUnrel, rdRel,        \* ring indices the consumer loaded: before its next
                           \* release of R / released, not yet acquired by the producer
    mapLog, unmapLog,      \* per endpoint: the mmap and munmap calls it has made
    zeroedAt,              \* per endpoint: how much had been written and read
                           \* when its constructor began to zero the counters
    grantor, mpc, mapReq, mapBase, mapAddr, unmapReq   \* one grantor's map / unmap

shared == <<W, R, ring, old, unpub, pub>>
objs == <<desc, life, mReadPtr, mWritePtr, mRing>>
wloc == <<wpc, wCount, wData, wAvail, wTx, wIdx, wPtr, wRes>>
rloc == <<rpc, rCount, rBuf, rAvail, rTx, rIdx, rPtr, rRes>>
hist == <<written, delivered>>
rsync == <<rdUnrel, rdRel>>
trace == <<mapLog, unmapLog, zeroedAt>>
mapper == <<grantor, mpc, mapReq, mapBase, mapAddr, unmapReq>>
vars == <<shared, objs, wloc, rloc, hist, rsync, trace, mapper>>

(* ------------------------ unsigned arithmetic ------------------------- *)
USub(a, b) == (a - b + Wrap) % Wrap
UAdd(a, b) == (a + b) % Wrap
UMul(a, b) == (a * b) % Wrap

(* --------------------------- pure functions --------------------------- *)
\* variant: the difference taken as a signed one, 0 when W is below R
availableToRead_Clamped(w, r) == IF w >= r THEN w - r ELSE 0

\* availableToRead(): *mWritePtr - *mReadPtr, on the two values it loaded
availableToRead(w, r) == USub(w, r)

\* variant: the free space taken to be the whole ring
availableToWrite_IgnoreOccupancy(size, w, r) == size

\* availableToWrite(): mDesc.getSize() - availableToRead()
availableToWrite(size, w, r) == USub(size, availableToRead(w, r))

\* the address of the run {0, 0}: the null pointer, which is no ring index
NullAddress == -1
NoRegion == [address |-> NullAddress, length |-> 0]
NoTx == [first |-> NoRegion, second |-> NoRegion]

\* variant: a write that stops at the ring end instead of wrapping
beginWrite_NoWrap(writePtr, nBytesDesired, size) ==
    LET writeOffset == writePtr % size
        contiguous == size - writeOffset
    IN  [first |-> [address |-> writeOffset,
                    length |-> IF contiguous < nBytesDesired
                               THEN contiguous ELSE nBytesDesired],
         second |-> NoRegion]

\* variant: a wrapping read that names its two runs in the wrong order
beginRead_SwapRuns(readPtr, nBytesDesired, size) ==
    LET readOffset == readPtr % size
        contiguous == size - readOffset
    IN  IF contiguous < nBytesDesired
        THEN [first |-> [address |-> 0, length |-> USub(nBytesDesired, contiguous)],
              second |-> [address |-> readOffset, length |-> contiguous]]
        ELSE [first |-> [address |-> readOffset, length |-> nBytesDesired],
              second |-> NoRegion]

\* variant: a write that splits when the request exactly fits the ring end
beginWrite_SplitAtFit(writePtr, nBytesDesired, size) ==
    LET writeOffset == writePtr % size
        contiguous == size - writeOffset
    IN  IF contiguous <= nBytesDesired
        THEN [first |-> [address |-> writeOffset, length |-> contiguous],
              second |-> [address |-> 0, length |-> USub(nBytesDesired, contiguous)]]
        ELSE [first |-> [address |-> writeOffset, length |-> nBytesDesired],
              second |-> NoRegion]

\* beginWrite(nBytesDesired): the split computed from the loaded writePtr;
\* an address is an index into the ring (mRing + k), or NullAddress in {0, 0}
beginWrite(writePtr, nBytesDesired, size) ==
    LET writeOffset == writePtr % size
        contiguous == size - writeOffset
    IN  IF contiguous < nBytesDesired
        THEN [first |-> [address |-> writeOffset, length |-> contiguous],
              second |-> [address |-> 0, length |-> USub(nBytesDesired, contiguous)]]
        ELSE [first |-> [address |-> writeOffset, length |-> nBytesDesired],
              second |-> NoRegion]

\* beginRead(nBytesDesired): the split computed from the loaded readPtr
beginRead(readPtr, nBytesDesired, size) ==
    LET readOffset == readPtr % size
        contiguous == size - readOffset
    IN  IF contiguous < nBytesDesired
        THEN [first |-> [address |-> readOffset, length |-> contiguous],
              second |-> [address |-> 0, length |-> USub(nBytesDesired, contiguous)]]
        ELSE [first |-> [address |-> readOffset, length |-> nBytesDesired],
              second |-> NoRegion]

\* size_t result = tx.first.length + tx.second.length
TxLength(tx) == UAdd(tx.first.length, tx.second.length)

\* the ring index the j-th byte (j = 0, 1, ...) of the two memcpy calls touches
TxIndex(tx, j) ==
    IF j < tx.first.length
    THEN tx.first.address + j
    ELSE tx.second.address + (j - tx.first.length)

\* isValid(): all three pointer members are non-null
isValid(e) == mRing[e] # NULLPTR /\ mReadPtr[e] # NULLPTR /\ mWritePtr[e] # NULLPTR

\* the constructor's test of the descriptor
Malformed(d) ==
    \/ ~d.handleValid
    \/ d.grantors < kMinGrantorCount
    \/ d.quantum # SizeofT

GoodDesc(size) ==
    [handleValid |-> TRUE, grantors |-> kMinGrantorCount,
     quantum |-> SizeofT, size |-> size]

\* the values a consumer load of ring[i] can return: a producer store that no
\* acquire-load of W has ordered before this read may or may not be seen
RingView(i) == IF i \in unpub \cup pub THEN {ring[i], old[i]} ELSE {ring[i]}

Zeros(n) == [j \in 1 .. n |-> 0]

\* no mmap and no munmap call made; in the mapper an address is a number and
\* the null pointer is address 0
NoMmap == [offset |-> 0, length |-> 0]
NoMunmap == [address |-> 0, length |-> 0]
\* no grantor is being mapped or unmapped on its own
MapperOff ==
    /\ grantor = [offset |-> 0, extent |-> 0]
    /\ mpc = "off"
    /\ mapReq = NoMmap /\ mapBase = 0 /\ mapAddr = 0 /\ unmapReq = NoMunmap

(* ------------------------------- Init --------------------------------- *)
\* both endpoints constructed from the same well-formed descriptor over a
\* freshly created (zero-filled) shared memory, counters zeroed
Init ==
    /\ \E size \in Sizes :
          /\ desc = [e \in Endpoints |-> GoodDesc(size)]
          /\ ring = [i \in 0 .. size - 1 |-> 0]
          /\ old = [i \in 0 .. size - 1 |-> 0]
    /\ W = 0 /\ R = 0
    /\ unpub = {} /\ pub = {}
    /\ life = [e \in Endpoints |-> "bound"]
    /\ mReadPtr = [e \in Endpoints |-> MAPPED]
    /\ mWritePtr = [e \in Endpoints |-> MAPPED]
    /\ mRing = [e \in Endpoints |-> MAPPED]
    /\ wpc = "idle" /\ wCount = 0 /\ wData = <<>> /\ wAvail = [w |-> None, r |-> None]
    /\ wTx = NoTx /\ wIdx = 0 /\ wPtr = None /\ wRes = FALSE
    /\ rpc = "idle" /\ rCount = 0 /\ rBuf = <<>> /\ rAvail = [w |-> None, r |-> None]
    /\ rTx = NoTx /\ rIdx = 0 /\ rPtr = None /\ rRes = FALSE
    /\ written = <<>> /\ delivered = <<>>
    /\ rdUnrel = {} /\ rdRel = {}
    /\ mapLog = [e \in Endpoints |-> <<READPTRPOS, WRITEPTRPOS, DATAPTRPOS>>]
    /\ unmapLog = [e \in Endpoints |-> <<>>]
    /\ zeroedAt = [e \in Endpoints |-> <<0, 0>>]
    /\ MapperOff

(* ------------------------- the producer: write ------------------------ *)
\* the caller enters write(data, count) with count records in data
WriteCall ==
    /\ wpc = "idle" /\ life["writer"] = "bound"
    /\ \E count \in 0 .. MaxCount :
          /\ Len(written) + SizeofT * count <= MaxBytes
          /\ \E data \in [1 .. SizeofT * count -> Data] :
                /\ wCount' = count
                /\ wData' = data
    /\ wpc' = "avail"
    /\ wAvail' = [w |-> None, r |-> None]
    /\ wTx' = NoTx /\ wIdx' = 0 /\ wPtr' = None /\ wRes' = FALSE
    /\ UNCHANGED <<rsync, trace, mapper>>
    /\ UNCHANGED <<shared, objs, rloc, hist>>

\* availableToRead(): the relaxed load of *mWritePtr (the operands of the
\* subtraction are evaluated in either order)
WriteAvailLoadW ==
    /\ wpc = "avail" /\ wAvail.w = None /\ mWritePtr["writer"] = MAPPED
    /\ wAvail' = [wAvail EXCEPT !.w = W]
    /\ UNCHANGED <<rsync, trace, mapper>>
    /\ UNCHANGED <<shared, objs, rloc, hist,
                   wpc, wCount, wData, wTx, wIdx, wPtr, wRes>>

\* availableToRead(): the relaxed load of *mReadPtr
WriteAvailLoadR ==
    /\ wpc = "avail" /\ wAvail.r = None /\ mReadPtr["writer"] = MAPPED
    /\ wAvail' = [wAvail EXCEPT !.r = R]
    /\ UNCHANGED <<rsync, trace, mapper>>
    /\ UNCHANGED <<shared, objs, rloc, hist,
                   wpc, wCount, wData, wTx, wIdx, wPtr, wRes>>

\* variant: the capacity test written with <= instead of <
WriteCheck_Le ==
    /\ wpc = "avail" /\ wAvail.w # None /\ wAvail.r # None
    /\ IF availableToWrite(desc["writer"].size, wAvail.w, wAvail.r)
            <= UMul(SizeofT, wCount)
       THEN wpc' = "done" /\ wRes' = FALSE
       ELSE wpc' = "beginR" /\ wRes' = wRes
    /\ UNCHANGED <<rsync, trace, mapper>>
    /\ UNCHANGED <<shared, objs, rloc, hist,
                   wCount, wData, wAvail, wTx, wIdx, wPtr>>

\* if (availableToWrite() < sizeof(T) * count) return false;
WriteCheck ==
    /\ wpc = "avail" /\ wAvail.w # None /\ wAvail.r # None
    /\ IF availableToWrite(desc["writer"].size, wAvail.w, wAvail.r)
            < UMul(SizeofT, wCount)
       THEN wpc' = "done" /\ wRes' = FALSE
       ELSE wpc' = "beginR" /\ wRes' = wRes
    /\ UNCHANGED <<rsync, trace, mapper>>
    /\ UNCHANGED <<shared, objs, rloc, hist,
                   wCount, wData, wAvail, wTx, wIdx, wPtr>>

\* variant: the load of R in beginWrite made relaxed, ordering nothing
BeginWriteLoadR_Relaxed ==
    /\ wpc = "beginR" /\ mReadPtr["writer"] = MAPPED
    /\ wpc' = "beginW"
    /\ UNCHANGED <<rsync, trace, mapper>>
    /\ UNCHANGED <<shared, objs, rloc, hist,
                   wCount, wData, wAvail, wTx, wIdx, wPtr, wRes>>

\* beginWrite: auto readPtr = mReadPtr->load(acquire); the value is not
\* used, the load orders the consumer's released ring loads before the copy
BeginWriteLoadR ==
    /\ wpc = "beginR" /\ mReadPtr["writer"] = MAPPED
    /\ wpc' = "beginW"
    /\ rdRel' = {}
    /\ UNCHANGED <<rdUnrel, trace, mapper>>
    /\ UNCHANGED <<shared, objs, rloc, hist,
                   wCount, wData, wAvail, wTx, wIdx, wPtr, wRes>>

\* beginWrite: auto writePtr = mWritePtr->load(relaxed); compute the split
BeginWriteLoadW ==
    /\ wpc = "beginW" /\ mWritePtr["writer"] = MAPPED
    /\ wpc' = "copy"
    /\ wTx' = beginWrite(W, UMul(SizeofT, wCount), desc["writer"].size)
    /\ wIdx' = 0
    /\ UNCHANGED <<rsync, trace, mapper>>
    /\ UNCHANGED <<shared, objs, rloc, hist,
                   wCount, wData, wAvail, wPtr, wRes>>

\* one byte of memcpy(tx.first.address, data, tx.first.length) followed by
\* memcpy(tx.second.address, data + tx.first.length, tx.second.length);
\* a memcpy of length 0 copies nothing
WriteCopy ==
    /\ wpc = "copy" /\ wIdx < TxLength(wTx) /\ mRing["writer"] = MAPPED
    /\ LET i == TxIndex(wTx, wIdx)
       IN  /\ old' = [old EXCEPT ![i] = ring[i]]
           /\ ring' = [ring EXCEPT ![i] = wData[wIdx + 1]]
           /\ unpub' = unpub \cup {i}
    /\ wIdx' = wIdx + 1
    /\ UNCHANGED <<rsync, trace, mapper>>
    /\ UNCHANGED <<W, R, pub, objs, rloc, hist,
                   wpc, wCount, wData, wAvail, wTx, wPtr, wRes>>

\* commitWrite: auto writePtr = mWritePtr->load(relaxed);
CommitWriteLoad ==
    /\ wpc = "copy" /\ wIdx = TxLength(wTx) /\ mWritePtr["writer"] = MAPPED
    /\ wPtr' = W
    /\ wpc' = "commit"
    /\ UNCHANGED <<rsync, trace, mapper>>
    /\ UNCHANGED <<shared, objs, rloc, hist,
                   wCount, wData, wAvail, wTx, wIdx, wRes>>

\* variant: commitWrite storing the byte count instead of the advanced counter
CommitWriteStore_Assign ==
    /\ wpc = "commit"
    /\ W' = TxLength(wTx)
    /\ pub' = pub \cup unpub
    /\ unpub' = {}
    /\ wRes' = (TxLength(wTx) = UMul(SizeofT, wCount))
    /\ wpc' = "done"
    /\ written' = written \o SubSeq(wData, 1, TxLength(wTx))
    /\ UNCHANGED <<rsync, trace, mapper>>
    /\ UNCHANGED <<R, ring, old, objs, rloc, delivered,
                   wCount, wData, wAvail, wTx, wIdx, wPtr>>

\* variant: commitWrite advancing W by the record count, not the byte count
CommitWriteStore_Records ==
    /\ wpc = "commit"
    /\ W' = UAdd(wPtr, wCount)
    /\ pub' = pub \cup unpub
    /\ unpub' = {}
    /\ wRes' = (TxLength(wTx) = UMul(SizeofT, wCount))
    /\ wpc' = "done"
    /\ written' = written \o SubSeq(wData, 1, TxLength(wTx))
    /\ UNCHANGED <<rsync, trace, mapper>>
    /\ UNCHANGED <<R, ring, old, objs, rloc, delivered,
                   wCount, wData, wAvail, wTx, wIdx, wPtr>>

\* commitWrite: writePtr += nBytesWritten; mWritePtr->store(writePtr, release);
\* then write() returns (writeBytes(...) == sizeof(T) * count)
CommitWriteStore ==
    /\ wpc = "commit"
    /\ W' = UAdd(wPtr, TxLength(wTx))
    /\ pub' = pub \cup unpub
    /\ unpub' = {}
    /\ wRes' = (TxLength(wTx) = UMul(SizeofT, wCount))
    /\ wpc' = "done"
    /\ written' = written \o SubSeq(wData, 1, TxLength(wTx))
    /\ UNCHANGED <<rsync, trace, mapper>>
    /\ UNCHANGED <<R, ring, old, objs, rloc, delivered,
                   wCount, wData, wAvail, wTx, wIdx, wPtr>>

\* the caller has the result; the call's locals die
WriteReturn ==
    /\ wpc = "done"
    /\ wpc' = "idle" /\ wCount' = 0 /\ wData' = <<>>
    /\ wAvail' = [w |-> None, r |-> None]
    /\ wTx' = NoTx /\ wIdx' = 0 /\ wPtr' = None /\ wRes' = FALSE
    /\ UNCHANGED <<rsync, trace, mapper>>
    /\ UNCHANGED <<shared, objs, rloc, hist>>

(* ------------------------- the consumer: read ------------------------- *)
\* the caller enters read(data, count) with room for count records
ReadCall ==
    /\ rpc = "idle" /\ life["reader"] = "bound"
    /\ \E count \in 0 .. MaxCount :
          /\ rCount' = count
          /\ rBuf' = Zeros(SizeofT * count)
    /\ rpc' = "avail"
    /\ rAvail' = [w |-> None, r |-> None]
    /\ rTx' = NoTx /\ rIdx' = 0 /\ rPtr' = None /\ rRes' = FALSE
    /\ UNCHANGED <<rsync, trace, mapper>>
    /\ UNCHANGED <<shared, objs, wloc, hist>>

\* availableToRead(): the relaxed load of *mWritePtr
ReadAvailLoadW ==
    /\ rpc = "avail" /\ rAvail.w = None /\ mWritePtr["reader"] = MAPPED
    /\ rAvail' = [rAvail EXCEPT !.w = W]
    /\ UNCHANGED <<rsync, trace, mapper>>
    /\ UNCHANGED <<shared, objs, wloc, hist,
                   rpc, rCount, rBuf, rTx, rIdx, rPtr, rRes>>

\* availableToRead(): the relaxed load of *mReadPtr
ReadAvailLoadR ==
    /\ rpc = "avail" /\ rAvail.r = None /\ mReadPtr["reader"] = MAPPED
    /\ rAvail' = [rAvail EXCEPT !.r = R]
    /\ UNCHANGED <<rsync, trace, mapper>>
    /\ UNCHANGED <<shared, objs, wloc, hist,
                   rpc, rCount, rBuf, rTx, rIdx, rPtr, rRes>>

\* variant: the availability test written with <= instead of <
ReadCheck_Le ==
    /\ rpc = "avail" /\ rAvail.w # None /\ rAvail.r # None
    /\ IF availableToRead(rAvail.w, rAvail.r) <= UMul(SizeofT, rCount)
       THEN rpc' = "done" /\ rRes' = FALSE
       ELSE rpc' = "beginW" /\ rRes' = rRes
    /\ UNCHANGED <<rsync, trace, mapper>>
    /\ UNCHANGED <<shared, objs, wloc, hist,
                   rCount, rBuf, rAvail, rTx, rIdx, rPtr>>

\* variant: a refused read that drops the bytes that were available
ReadCheck_Partial ==
    /\ rpc = "avail" /\ rAvail.w # None /\ rAvail.r # None
    /\ IF availableToRead(rAvail.w, rAvail.r) < UMul(SizeofT, rCount)
       THEN rpc' = "done" /\ rRes' = FALSE /\ R' = rAvail.w
       ELSE rpc' = "beginW" /\ rRes' = rRes /\ R' = R
    /\ UNCHANGED <<rsync, trace, mapper>>
    /\ UNCHANGED <<W, ring, old, unpub, pub, objs, wloc, hist,
                   rCount, rBuf, rAvail, rTx, rIdx, rPtr>>

\* if (availableToRead() < sizeof(T) * count) return false;
ReadCheck ==
    /\ rpc = "avail" /\ rAvail.w # None /\ rAvail.r # None
    /\ IF availableToRead(rAvail.w, rAvail.r) < UMul(SizeofT, rCount)
       THEN rpc' = "done" /\ rRes' = FALSE
       ELSE rpc' = "beginW" /\ rRes' = rRes
    /\ UNCHANGED <<rsync, trace, mapper>>
    /\ UNCHANGED <<shared, objs, wloc, hist,
                   rCount, rBuf, rAvail, rTx, rIdx, rPtr>>

\* variant: the load of W in beginRead made relaxed, ordering nothing
BeginReadLoadW_Relaxed ==
    /\ rpc = "beginW" /\ mWritePtr["reader"] = MAPPED
    /\ rpc' = "beginR"
    /\ UNCHANGED <<rsync, trace, mapper>>
    /\ UNCHANGED <<shared, objs, wloc, hist,
                   rCount, rBuf, rAvail, rTx, rIdx, rPtr, rRes>>

\* beginRead: auto writePtr = mWritePtr->load(acquire); the value is not
\* used, the load orders the producer's released ring stores before the copy
BeginReadLoadW ==
    /\ rpc = "beginW" /\ mWritePtr["reader"] = MAPPED
    /\ pub' = {}
    /\ rpc' = "beginR"
    /\ UNCHANGED <<rsync, trace, mapper>>
    /\ UNCHANGED <<W, R, ring, old, unpub, objs, wloc, hist,
                   rCount, rBuf, rAvail, rTx, rIdx, rPtr, rRes>>

\* beginRead: auto readPtr = mReadPtr->load(relaxed); compute the split
BeginReadLoadR ==
    /\ rpc = "beginR" /\ mReadPtr["reader"] = MAPPED
    /\ rpc' = "copy"
    /\ rTx' = beginRead(R, UMul(SizeofT, rCount), desc["reader"].size)
    /\ rIdx' = 0
    /\ UNCHANGED <<rsync, trace, mapper>>
    /\ UNCHANGED <<shared, objs, wloc, hist,
                   rCount, rBuf, rAvail, rPtr, rRes>>

\* one byte of memcpy(data, tx.first.address, tx.first.length) followed by
\* memcpy(data + tx.first.length, tx.second.address, tx.second.length)
ReadCopy ==
    /\ rpc = "copy" /\ rIdx < TxLength(rTx) /\ mRing["reader"] = MAPPED
    /\ \E v \in RingView(TxIndex(rTx, rIdx)) :
          rBuf' = [rBuf EXCEPT ![rIdx + 1] = v]
    /\ rIdx' = rIdx + 1
    /\ rdUnrel' = rdUnrel \cup {TxIndex(rTx, rIdx)}
    /\ UNCHANGED <<rdRel, trace, mapper>>
    /\ UNCHANGED <<shared, objs, wloc, hist,
                   rpc, rCount, rAvail, rTx, rPtr, rRes>>

\* commitRead: auto readPtr = mReadPtr->load(relaxed);
CommitReadLoad ==
    /\ rpc = "copy" /\ rIdx = TxLength(rTx) /\ mReadPtr["reader"] = MAPPED
    /\ rPtr' = R
    /\ rpc' = "commit"
    /\ UNCHANGED <<rsync, trace, mapper>>
    /\ UNCHANGED <<shared, objs, wloc, hist,
                   rCount, rBuf, rAvail, rTx, rIdx, rRes>>

\* variant: commitRead advancing R by the first run only
CommitReadStore_FirstRunOnly ==
    /\ rpc = "commit"
    /\ R' = UAdd(rPtr, rTx.first.length)
    /\ rRes' = (TxLength(rTx) = UMul(SizeofT, rCount))
    /\ rpc' = "done"
    /\ delivered' = delivered \o SubSeq(rBuf, 1, TxLength(rTx))
    /\ rdRel' = rdRel \cup rdUnrel
    /\ rdUnrel' = {}
    /\ UNCHANGED <<trace, mapper>>
    /\ UNCHANGED <<W, ring, old, unpub, pub, objs, wloc, written,
                   rCount, rBuf, rAvail, rTx, rIdx, rPtr>>

\* commitRead: readPtr += nBytesRead; mReadPtr->store(readPtr, release);
\* then read() returns (readBytes(...) == sizeof(T) * count)
CommitReadStore ==
    /\ rpc = "commit"
    /\ R' = UAdd(rPtr, TxLength(rTx))
    /\ rRes' = (TxLength(rTx) = UMul(SizeofT, rCount))
    /\ rpc' = "done"
    /\ delivered' = delivered \o SubSeq(rBuf, 1, TxLength(rTx))
    /\ rdRel' = rdRel \cup rdUnrel
    /\ rdUnrel' = {}
    /\ UNCHANGED <<trace, mapper>>
    /\ UNCHANGED <<W, ring, old, unpub, pub, objs, wloc, written,
                   rCount, rBuf, rAvail, rTx, rIdx, rPtr>>

\* the caller has the result and the records; the call's locals die
ReadReturn ==
    /\ rpc = "done"
    /\ rpc' = "idle" /\ rCount' = 0 /\ rBuf' = <<>>
    /\ rAvail' = [w |-> None, r |-> None]
    /\ rTx' = NoTx /\ rIdx' = 0 /\ rPtr' = None /\ rRes' = FALSE
    /\ UNCHANGED <<rsync, trace, mapper>>
    /\ UNCHANGED <<shared, objs, wloc, hist>>

(* ------------------------------- Spec --------------------------------- *)
Write ==
    \/ WriteCall \/ WriteAvailLoadW \/ WriteAvailLoadR \/ WriteCheck
    \/ BeginWriteLoadR \/ BeginWriteLoadW \/ WriteCopy
    \/ CommitWriteLoad \/ CommitWriteStore \/ WriteReturn

Read ==
    \/ ReadCall \/ ReadAvailLoadW \/ ReadAvailLoadR \/ ReadCheck
    \/ BeginReadLoadW \/ BeginReadLoadR \/ ReadCopy
    \/ CommitReadLoad \/ CommitReadStore \/ ReadReturn

Next == Write \/ Read

Spec == Init /\ [][Next]_vars

(* ------------------- counters about to wrap around ------------------- *)
\* counter values a long-lived queue of SizeofT-byte records reaches shortly
\* before W passes 2^CounterBits
WrapStarts == {Wrap - 2 * SizeofT, Wrap - SizeofT}

\* an empty queue whose counters stand at such a value; the ring holds what
\* earlier records left in it; written and delivered count from here on
InitWrap ==
    /\ \E size \in Sizes :
          /\ desc = [e \in Endpoints |-> GoodDesc(size)]
          /\ ring = [i \in 0 .. size - 1 |-> 1]
          /\ old = [i \in 0 .. size - 1 |-> 1]
    /\ \E start \in WrapStarts : W = start /\ R = start
    /\ unpub = {} /\ pub = {}
    /\ life = [e \in Endpoints |-> "bound"]
    /\ mReadPtr = [e \in Endpoints |-> MAPPED]
    /\ mWritePtr = [e \in Endpoints |-> MAPPED]
    /\ mRing = [e \in Endpoints |-> MAPPED]
    /\ wpc = "idle" /\ wCount = 0 /\ wData = <<>> /\ wAvail = [w |-> None, r |-> None]
    /\ wTx = NoTx /\ wIdx = 0 /\ wPtr = None /\ wRes = FALSE
    /\ rpc = "idle" /\ rCount = 0 /\ rBuf = <<>> /\ rAvail = [w |-> None, r |-> None]
    /\ rTx = NoTx /\ rIdx = 0 /\ rPtr = None /\ rRes = FALSE
    /\ written = <<>> /\ delivered = <<>>
    /\ rdUnrel = {} /\ rdRel = {}
    /\ mapLog = [e \in Endpoints |-> <<READPTRPOS, WRITEPTRPOS, DATAPTRPOS>>]
    /\ unmapLog = [e \in Endpoints |-> <<>>]
    /\ zeroedAt = [e \in Endpoints |-> <<0, 0>>]
    /\ MapperOff

SpecWrap == InitWrap /\ [][Next]_vars

(* --------------------------- the region mapper ----------------------- *)
\* conversions between the integer types of mapGrantorDescr: an unsigned
\* field, an int (two's complement), and the wide unsigned size_t
UnsignedMod == 2 ^ IntBits
SizeMod == 2 ^ (2 * IntBits)
ToUnsigned(x) == (x + UnsignedMod) % UnsignedMod
ToInt(x) ==
    LET m == ToUnsigned(x)
    IN  IF m >= UnsignedMod \div 2 THEN m - UnsignedMod ELSE m
ToSizeT(x) == (x + SizeMod) % SizeMod

\* int mapOffset = (offset / PAGE_SIZE) * PAGE_SIZE;
MapOffset(g) == ToInt(ToUnsigned((g.offset \div PAGE_SIZE) * PAGE_SIZE))
\* offset - mapOffset, an unsigned difference
IntraPage(g) == ToUnsigned(g.offset - ToUnsigned(MapOffset(g)))
\* int mapLength = offset - mapOffset + extent;
MapLength(g) == ToInt(ToUnsigned(IntraPage(g) + g.extent))

\* the grantors explored: every offset and every positive extent the
\* unsigned fields can hold; the shared-memory object holds each of them
Grantors == [offset : 0 .. UnsignedMod - 1, extent : 1 .. UnsignedMod - 1]
ObjectSize == 2 * UnsignedMod
\* the page-aligned addresses mmap may choose
Bases == {PAGE_SIZE, 2 * PAGE_SIZE}

\* mmap(0, length, PROT_READ | PROT_WRITE, MAP_SHARED, fd, offset) can succeed
\* only for a positive length and a non-negative page-aligned offset that
\* lie inside the object
MmapCanSucceed(req) ==
    /\ req.length > 0
    /\ req.offset >= 0 /\ req.offset % PAGE_SIZE = 0
    /\ req.offset + req.length <= ObjectSize

\* a bound queue, and one grantor about to be mapped on its own
InitMap ==
    /\ \E size \in Sizes :
          /\ desc = [e \in Endpoints |-> GoodDesc(size)]
          /\ ring = [i \in 0 .. size - 1 |-> 0]
          /\ old = [i \in 0 .. size - 1 |-> 0]
    /\ W = 0 /\ R = 0
    /\ unpub = {} /\ pub = {}
    /\ life = [e \in Endpoints |-> "bound"]
    /\ mReadPtr = [e \in Endpoints |-> MAPPED]
    /\ mWritePtr = [e \in Endpoints |-> MAPPED]
    /\ mRing = [e \in Endpoints |-> MAPPED]
    /\ wpc = "idle" /\ wCount = 0 /\ wData = <<>> /\ wAvail = [w |-> None, r |-> None]
    /\ wTx = NoTx /\ wIdx = 0 /\ wPtr = None /\ wRes = FALSE
    /\ rpc = "idle" /\ rCount = 0 /\ rBuf = <<>> /\ rAvail = [w |-> None, r |-> None]
    /\ rTx = NoTx /\ rIdx = 0 /\ rPtr = None /\ rRes = FALSE
    /\ written = <<>> /\ delivered = <<>>
    /\ rdUnrel = {} /\ rdRel = {}
    /\ mapLog = [e \in Endpoints |-> <<READPTRPOS, WRITEPTRPOS, DATAPTRPOS>>]
    /\ unmapLog = [e \in Endpoints |-> <<>>]
    /\ zeroedAt = [e \in Endpoints |-> <<0, 0>>]
    /\ grantor \in Grantors
    /\ mpc = "start"
    /\ mapReq = NoMmap /\ mapBase = 0 /\ mapAddr = 0 /\ unmapReq = NoMunmap

\* mapGrantorDescr(grantor_idx): the mmap call with mapLength converted to
\* size_t and mapOffset to off_t; nullptr for MAP_FAILED, else the mapping's
\* address plus (offset - mapOffset)
MapGrantorDescr ==
    /\ mpc = "start"
    /\ mapReq' = [offset |-> MapOffset(grantor), length |-> ToSizeT(MapLength(grantor))]
    /\ \/ /\ MmapCanSucceed(mapReq')
          /\ \E base \in Bases :
                /\ mapBase' = base
                /\ mapAddr' = ToSizeT(base + IntraPage(grantor))
          /\ mpc' = "mapped"
       \/ /\ mapBase' = 0 /\ mapAddr' = 0
          /\ mpc' = "failed"
    /\ UNCHANGED <<grantor, unmapReq>>
    /\ UNCHANGED <<shared, objs, wloc, rloc, hist, rsync, trace>>

\* unmapGrantorDescr(address, grantor_idx), called as the destructor calls
\* it, with a non-null address: baseAddress = address - (offset - mapOffset);
\* if (baseAddress) munmap(baseAddress, mapLength);
UnmapGrantorDescr ==
    /\ mpc = "mapped" /\ mapAddr # 0
    /\ LET baseAddress == ToSizeT(mapAddr - IntraPage(grantor))
       IN  unmapReq' = IF baseAddress # 0
                       THEN [address |-> baseAddress,
                             length |-> ToSizeT(MapLength(grantor))]
                       ELSE NoMunmap
    /\ mpc' = "unmapped"
    /\ UNCHANGED <<grantor, mapReq, mapBase, mapAddr>>
    /\ UNCHANGED <<shared, objs, wloc, rloc, hist, rsync, trace>>

NextMap == MapGrantorDescr \/ UnmapGrantorDescr

\* one grantor mapped and unmapped
SpecMap == InitMap /\ [][NextMap]_vars

(* ---------------------- construction of an endpoint ------------------- *)
\* the descriptors an endpoint may be handed: well-formed, or malformed in
\* one of the three ways the constructor tests
Descriptors(size) ==
    { GoodDesc(size),
      [GoodDesc(size) EXCEPT !.handleValid = FALSE],
      [GoodDesc(size) EXCEPT !.grantors = kMinGrantorCount - 1],
      [GoodDesc(size) EXCEPT !.quantum = SizeofT + 1] }

\* mRing, mReadPtr and mWritePtr have no initializer: until the constructor
\* assigns them they hold whatever the object's storage held, null or not
Indeterminate == {NULLPTR, WILD}

\* before either constructor has run, over freshly created shared memory
InitBind ==
    /\ \E size \in Sizes :
          /\ desc \in [Endpoints -> Descriptors(size)]
          /\ ring = [i \in 0 .. size - 1 |-> 0]
          /\ old = [i \in 0 .. size - 1 |-> 0]
    /\ W = 0 /\ R = 0
    /\ unpub = {} /\ pub = {}
    /\ life = [e \in Endpoints |-> "unbound"]
    /\ mReadPtr \in [Endpoints -> Indeterminate]
    /\ mWritePtr \in [Endpoints -> Indeterminate]
    /\ mRing \in [Endpoints -> Indeterminate]
    /\ wpc = "idle" /\ wCount = 0 /\ wData = <<>> /\ wAvail = [w |-> None, r |-> None]
    /\ wTx = NoTx /\ wIdx = 0 /\ wPtr = None /\ wRes = FALSE
    /\ rpc = "idle" /\ rCount = 0 /\ rBuf = <<>> /\ rAvail = [w |-> None, r |-> None]
    /\ rTx = NoTx /\ rIdx = 0 /\ rPtr = None /\ rRes = FALSE
    /\ written = <<>> /\ delivered = <<>>
    /\ rdUnrel = {} /\ rdRel = {}
    /\ mapLog = [e \in Endpoints |-> <<>>] /\ unmapLog = [e \in Endpoints |-> <<>>]
    /\ zeroedAt = [e \in Endpoints |-> <<>>]
    /\ MapperOff

\* MessageQueue(Desc): the test of the descriptor; a malformed one returns
\* at once, leaving the three pointer members as they were
CtorCheck(e) ==
    /\ life[e] = "unbound"
    /\ life' = [life EXCEPT ![e] = IF Malformed(desc[e]) THEN "bound" ELSE "mapRead"]
    /\ UNCHANGED <<rsync, trace, mapper>>
    /\ UNCHANGED <<shared, desc, mReadPtr, mWritePtr, mRing, wloc, rloc, hist>>

\* mReadPtr = mapGrantorDescr(READPTRPOS); CHECK(mReadPtr != nullptr);
\* mmap succeeds or fails, and a failed CHECK aborts the process
CtorMapRead(e) ==
    /\ life[e] = "mapRead"
    /\ \E ok \in BOOLEAN :
          /\ mReadPtr' = [mReadPtr EXCEPT ![e] = IF ok THEN MAPPED ELSE NULLPTR]
          /\ life' = [life EXCEPT ![e] = IF ok THEN "mapWrite" ELSE "aborted"]
    /\ mapLog' = [mapLog EXCEPT ![e] = Append(@, READPTRPOS)]
    /\ UNCHANGED <<rsync, unmapLog, zeroedAt, mapper>>
    /\ UNCHANGED <<shared, desc, mWritePtr, mRing, wloc, rloc, hist>>

\* mWritePtr = mapGrantorDescr(WRITEPTRPOS); CHECK(mWritePtr != nullptr);
CtorMapWrite(e) ==
    /\ life[e] = "mapWrite"
    /\ \E ok \in BOOLEAN :
          /\ mWritePtr' = [mWritePtr EXCEPT ![e] = IF ok THEN MAPPED ELSE NULLPTR]
          /\ life' = [life EXCEPT ![e] = IF ok THEN "zeroRead" ELSE "aborted"]
    /\ mapLog' = [mapLog EXCEPT ![e] = Append(@, WRITEPTRPOS)]
    /\ UNCHANGED <<rsync, unmapLog, zeroedAt, mapper>>
    /\ UNCHANGED <<shared, desc, mReadPtr, mRing, wloc, rloc, hist>>

\* mReadPtr->store(0, std::memory_order_acquire): the counter becomes 0; the
\* order given is not a release, so the store publishes nothing
CtorZeroRead(e) ==
    /\ life[e] = "zeroRead"
    /\ R' = 0
    /\ life' = [life EXCEPT ![e] = "zeroWrite"]
    /\ zeroedAt' = [zeroedAt EXCEPT ![e] = <<Len(written), Len(delivered)>>]
    /\ UNCHANGED <<rsync, mapLog, unmapLog, mapper>>
    /\ UNCHANGED <<W, ring, old, unpub, pub, desc, mReadPtr, mWritePtr, mRing,
                   wloc, rloc, hist>>

\* variant: a constructor that joins the queue as it is, keeping W
CtorZeroWrite_Join(e) ==
    /\ life[e] = "zeroWrite"
    /\ W' = W
    /\ life' = [life EXCEPT ![e] = "mapRing"]
    /\ UNCHANGED <<rsync, trace, mapper>>
    /\ UNCHANGED <<R, ring, old, unpub, pub, desc, mReadPtr, mWritePtr, mRing,
                   wloc, rloc, hist>>

\* mWritePtr->store(0, std::memory_order_acquire)
CtorZeroWrite(e) ==
    /\ life[e] = "zeroWrite"
    /\ W' = 0
    /\ life' = [life EXCEPT ![e] = "mapRing"]
    /\ UNCHANGED <<rsync, trace, mapper>>
    /\ UNCHANGED <<R, ring, old, unpub, pub, desc, mReadPtr, mWritePtr, mRing,
                   wloc, rloc, hist>>

\* mRing = mapGrantorDescr(DATAPTRPOS); CHECK(mRing != nullptr);
CtorMapRing(e) ==
    /\ life[e] = "mapRing"
    /\ \E ok \in BOOLEAN :
          /\ mRing' = [mRing EXCEPT ![e] = IF ok THEN MAPPED ELSE NULLPTR]
          /\ life' = [life EXCEPT ![e] = IF ok THEN "bound" ELSE "aborted"]
    /\ mapLog' = [mapLog EXCEPT ![e] = Append(@, DATAPTRPOS)]
    /\ UNCHANGED <<rsync, unmapLog, zeroedAt, mapper>>
    /\ UNCHANGED <<shared, desc, mReadPtr, mWritePtr, wloc, rloc, hist>>

\* what a load through pointer p does when p does not point at the mapped
\* counter: a null pointer traps; an indeterminate one traps or reads
\* whatever it points at, after which nothing is known of the call
Deref(p) == IF p = NULLPTR THEN {"crashed"} ELSE {"crashed", "undefined"}

\* write() -> availableToWrite() -> availableToRead(): the first of the two
\* loads, through a pointer the constructor never assigned
WriteFault ==
    /\ wpc = "avail" /\ wAvail.w = None /\ wAvail.r = None
    /\ \E p \in {mWritePtr["writer"], mReadPtr["writer"]} :
          /\ p # MAPPED
          /\ \E out \in Deref(p) : life' = [life EXCEPT !["writer"] = out]
    /\ wpc' = "fault"
    /\ UNCHANGED <<rsync, trace, mapper>>
    /\ UNCHANGED <<shared, desc, mReadPtr, mWritePtr, mRing, rloc, hist,
                   wCount, wData, wAvail, wTx, wIdx, wPtr, wRes>>

\* read() -> availableToRead(): the same on the reader endpoint
ReadFault ==
    /\ rpc = "avail" /\ rAvail.w = None /\ rAvail.r = None
    /\ \E p \in {mWritePtr["reader"], mReadPtr["reader"]} :
          /\ p # MAPPED
          /\ \E out \in Deref(p) : life' = [life EXCEPT !["reader"] = out]
    /\ rpc' = "fault"
    /\ UNCHANGED <<rsync, trace, mapper>>
    /\ UNCHANGED <<shared, desc, mReadPtr, mWritePtr, mRing, wloc, hist,
                   rCount, rBuf, rAvail, rTx, rIdx, rPtr, rRes>>

Ctor(e) ==
    \/ CtorCheck(e) \/ CtorMapRead(e) \/ CtorMapWrite(e)
    \/ CtorZeroRead(e) \/ CtorZeroWrite(e) \/ CtorMapRing(e)

NextBind ==
    \/ \E e \in Endpoints : Ctor(e)
    \/ Write \/ Read
    \/ WriteFault \/ ReadFault

\* the two endpoints from their construction on
SpecBind == InitBind /\ [][NextBind]_vars

(* ----------------------- destruction of an endpoint ------------------- *)
\* the endpoint's own thread is in none of its calls
Idle(e) == IF e = "writer" THEN wpc = "idle" ELSE rpc = "idle"

\* if (p) unmapGrantorDescr(p, pos): nothing for a null member; a munmap of
\* its region for a member that points at one; for a member the constructor
\* never assigned, indeterminate and not null, a munmap of whatever address
\* the arithmetic gives, unless that address comes out null
UnmapIf(e, p, pos) ==
    \/ /\ p = NULLPTR
       /\ unmapLog' = unmapLog
    \/ /\ p # NULLPTR
       /\ unmapLog' = [unmapLog EXCEPT ![e] = Append(@, [pos |-> pos, address |-> p])]
    \/ /\ p = WILD
       /\ unmapLog' = unmapLog

\* variant: a destructor that leaves the queue empty for the next user
DtorUnmapRead_Reset(e) ==
    /\ life[e] = "bound" /\ Idle(e)
    /\ UnmapIf(e, mReadPtr[e], READPTRPOS)
    /\ life' = [life EXCEPT ![e] = "unmapWrite"]
    /\ W' = 0 /\ R' = 0
    /\ UNCHANGED <<rsync, mapLog, zeroedAt, mapper>>
    /\ UNCHANGED <<ring, old, unpub, pub, desc, mReadPtr, mWritePtr, mRing,
                   wloc, rloc, hist>>

\* ~MessageQueue(): if (mReadPtr) unmapGrantorDescr(mReadPtr, READPTRPOS);
DtorUnmapRead(e) ==
    /\ life[e] = "bound" /\ Idle(e)
    /\ UnmapIf(e, mReadPtr[e], READPTRPOS)
    /\ life' = [life EXCEPT ![e] = "unmapWrite"]
    /\ UNCHANGED <<rsync, mapLog, zeroedAt, mapper>>
    /\ UNCHANGED <<shared, desc, mReadPtr, mWritePtr, mRing, wloc, rloc, hist>>

\* if (mWritePtr) unmapGrantorDescr(mWritePtr, WRITEPTRPOS);
DtorUnmapWrite(e) ==
    /\ life[e] = "unmapWrite"
    /\ UnmapIf(e, mWritePtr[e], WRITEPTRPOS)
    /\ life' = [life EXCEPT ![e] = "unmapRing"]
    /\ UNCHANGED <<rsync, mapLog, zeroedAt, mapper>>
    /\ UNCHANGED <<shared, desc, mReadPtr, mWritePtr, mRing, wloc, rloc, hist>>

\* if (mRing) unmapGrantorDescr(mRing, DATAPTRPOS); the object is gone
DtorUnmapRing(e) ==
    /\ life[e] = "unmapRing"
    /\ UnmapIf(e, mRing[e], DATAPTRPOS)
    /\ life' = [life EXCEPT ![e] = "destroyed"]
    /\ UNCHANGED <<rsync, mapLog, zeroedAt, mapper>>
    /\ UNCHANGED <<shared, desc, mReadPtr, mWritePtr, mRing, wloc, rloc, hist>>

Dtor(e) == DtorUnmapRead(e) \/ DtorUnmapWrite(e) \/ DtorUnmapRing(e)

\* bool write(const T* data) { return write(data, 1); }
WriteOne == Write /\ (wpc = "idle" => wCount' = 1)

\* bool read(T* data) { return read(data, 1); }
ReadOne == Read /\ (rpc = "idle" => rCount' = 1)

NextLife ==
    \/ \E e \in Endpoints : Ctor(e)
    \/ \E e \in Endpoints : Dtor(e)
    \/ WriteOne \/ ReadOne
    \/ WriteFault \/ ReadFault

\* the whole life of the two endpoints, construction to destruction, with
\* one-record calls in between
SpecLife == InitBind /\ [][NextLife]_vars

(* ------------------- a producer and a consumer that retry ------------- *)
NextLive == WriteOne \/ ReadOne

\* where a call stands: every step of a write changes wprog, every step of a
\* read changes rprog
wprog == <<wpc, wIdx, wAvail>>
rprog == <<rpc, rIdx, rAvail>>

\* a producer thread that calls write(data) again and again and a consumer
\* thread that calls read(data) again and again, each scheduled again and
\* again: a thread that can take a step is not left waiting for ever
SpecLive == Init /\ [][NextLive]_vars /\ WF_wprog(WriteOne) /\ WF_rprog(ReadOne)

(* ============================ properties ============================== *)
\* shorthands of the formulas below: the ring size, and a step taken by the
\* producer's call or by the consumer's call
C == desc["writer"].size
WriterStep == wloc' # wloc
ReaderStep == rloc' # rloc
\* the ring indices a transaction names
TxIndices(tx) == {TxIndex(tx, j) : j \in 0 .. TxLength(tx) - 1}

\* C1 (FIFO): the k-th byte delivered by successful reads is the k-th byte
\* accepted by successful writes, for every k: the delivered stream is a
\* prefix of the written stream.
C1_FIFO ==
    /\ Len(delivered) <= Len(written)
    /\ \A k \in 1 .. Len(delivered) : delivered[k] = written[k]

\* more bytes delivered than the ring holds (the ring has been reused), with
\* both data values among them
C1_Witness ==
    /\ Len(delivered) > C
    /\ \E j, k \in 1 .. Len(delivered) : delivered[j] # delivered[k]
    /\ C1_FIFO

\* C2 (occupancy bounds): in every reachable state, the states between a
\* capacity check, the byte copy and the counter commit included,
\* 0 <= W - R <= C (as integers and as the unsigned difference).
C2_Occupancy ==
    /\ R <= W
    /\ W - R <= C
    /\ USub(W, R) <= C

\* the ring is full while the consumer is in the middle of its copy and the
\* producer is at its capacity check
C2_Witness ==
    /\ W - R = C
    /\ rpc = "copy" /\ rIdx = 1
    /\ wpc = "avail"

\* C3 (flow control): write returns true exactly when C - (W - R) >= count*Q
\* for the counter values its capacity check loaded, read returns true
\* exactly when W - R >= count*Q for the values its check loaded; a write of
\* one record or more on a full queue and a read of one record or more on an
\* empty queue are refused.
C3_FlowControl ==
    /\ wpc = "done" =>
          /\ wRes <=> (C - (wAvail.w - wAvail.r) >= SizeofT * wCount)
          /\ (wCount >= 1 /\ wAvail.w - wAvail.r = C) => ~wRes
    /\ rpc = "done" =>
          /\ rRes <=> (rAvail.w - rAvail.r >= SizeofT * rCount)
          /\ (rCount >= 1 /\ rAvail.w = rAvail.r) => ~rRes
    \* the values the check loaded are counter values of the moment: the
    \* caller's own counter exactly, the peer's counter as loaded
    /\ (wpc \in {"avail", "beginR", "beginW", "copy", "commit"} /\ wAvail.w # None)
          => wAvail.w = W
    /\ (rpc \in {"avail", "beginW", "beginR", "copy", "commit"} /\ rAvail.r # None)
          => rAvail.r = R

\* a one-record write refused on a full queue next to a read refused on an
\* empty one (the consumer's check came before the first commit)
C3_Witness ==
    /\ wpc = "done" /\ ~wRes /\ wCount = 1 /\ wAvail.w - wAvail.r = C
    /\ rpc = "done" /\ ~rRes /\ rCount >= 1 /\ rAvail.w = rAvail.r

\* C4 (a refused operation changes nothing): no step of a call up to and
\* including its refusal, nor its return, changes W, R or a ring byte; a
\* refused call never began a transaction.
C4_RefusalNoEffect ==
    [][ /\ (WriterStep /\ (wpc \in {"idle", "avail"} \/ (wpc = "done" /\ ~wRes)))
              => (W' = W /\ R' = R /\ ring' = ring)
        /\ (ReaderStep /\ (rpc \in {"idle", "avail"} \/ (rpc = "done" /\ ~rRes)))
              => (W' = W /\ R' = R /\ ring' = ring)
        /\ (wpc' = "done" /\ ~wRes') => (wTx' = NoTx /\ wIdx' = 0 /\ W' = wAvail'.w)
        /\ (rpc' = "done" /\ ~rRes') => (rTx' = NoTx /\ rIdx' = 0 /\ R' = rAvail'.r)
      ]_vars

\* both calls refused with data in the ring: a write that does not fit and a
\* read of more than is there
C4_Witness ==
    /\ wpc = "done" /\ ~wRes /\ wCount = MaxCount
    /\ rpc = "done" /\ ~rRes /\ rCount = MaxCount
    /\ W - R = SizeofT
    /\ \E i \in DOMAIN ring : ring[i] # 0

\* C5 (a successful operation moves exactly the requested amount): W changes
\* only in the commit of a write, by exactly count*Q, with R and the ring
\* unchanged; R changes only in the commit of a read, by exactly count*Q, with
\* W and the ring unchanged; the ring changes only in a write's copy, in one
\* byte at an index (W_before + j) mod C with 0 <= j < count*Q, and no reader
\* step changes it; a call that returns true has moved its counter by
\* count*Q from the value it had when the call began.
C5_ExactAmount ==
    [][ /\ W' # W =>
              /\ WriterStep /\ wpc = "commit"
              /\ W' = W + SizeofT * wCount
              /\ R' = R /\ ring' = ring
        /\ R' # R =>
              /\ ReaderStep /\ rpc = "commit"
              /\ R' = R + SizeofT * rCount
              /\ W' = W /\ ring' = ring
        /\ ring' # ring =>
              /\ WriterStep /\ wpc = "copy" /\ W' = W /\ R' = R
              /\ \E j \in 0 .. SizeofT * wCount - 1 :
                    /\ ring' = [ring EXCEPT ![(W + j) % C] = wData[j + 1]]
        /\ (wpc' = "done" /\ wRes') =>
              (W' = wAvail'.w + SizeofT * wCount' /\ wIdx' = SizeofT * wCount')
        /\ (rpc' = "done" /\ rRes') =>
              (R' = rAvail'.r + SizeofT * rCount' /\ rIdx' = SizeofT * rCount')
        /\ (wpc' = "done" /\ wpc = "commit") => wRes'
        /\ (rpc' = "done" /\ rpc = "commit") => rRes'
      ]_vars

\* a write of the largest count that wrapped around the ring end has returned
\* true
C5_Witness ==
    /\ wpc = "done" /\ wRes /\ wCount = MaxCount
    /\ wTx.second.length > 0
    /\ W = wAvail.w + SizeofT * MaxCount

\* C6 (round trip with wraparound): when a write of S that began at position
\* p has returned true and the read that follows it began at R = p (the queue
\* was empty before S), asked for len(S) records and saw the write's commit
\* in its check, the read returned true, its buffer holds S exactly, and
\* W = R.
C6_RoundTrip ==
    ( /\ wpc = "done" /\ wRes
      /\ rpc = "done"
      /\ rCount = wCount
      /\ rAvail.r = wAvail.w
      /\ rAvail.w = wAvail.w + SizeofT * wCount )
    => (rRes /\ rBuf = wData /\ W = R)

\* such a pair where S started off the ring start, crossed the ring end and
\* holds two different byte values
C6_Witness ==
    /\ wpc = "done" /\ wRes /\ rpc = "done" /\ rRes
    /\ rCount = wCount /\ wCount >= 1
    /\ rAvail.r = wAvail.w
    /\ rAvail.w = wAvail.w + SizeofT * wCount
    /\ wAvail.w % C # 0
    /\ wTx.second.length > 0 /\ rTx.second.length > 0
    /\ \E j, k \in 1 .. Len(wData) : wData[j] # wData[k]
    /\ rBuf = wData /\ W = R

\* C7 (no torn records): whenever the consumer is about to copy a ring byte,
\* every producer store into that byte has been released by a W store the
\* consumer's acquire-load has seen (it is not a byte the producer has yet
\* to publish), the byte is outside the region of a write in progress, and
\* it holds the stream byte of the position being read, which lies below the
\* committed W.
C7_NoTornRecords ==
    (rpc = "copy" /\ rIdx < TxLength(rTx)) =>
        LET i == TxIndex(rTx, rIdx)
            pos == R + rIdx
        IN  /\ i \notin unpub \cup pub
            /\ wpc \in {"copy", "commit"} => i \notin TxIndices(wTx)
            /\ pos < W
            /\ pos < Len(written)
            /\ ring[i] = written[pos + 1]

\* the consumer is copying the second byte of a record while the producer is
\* in the middle of copying another record into the ring
C7_Witness ==
    /\ rpc = "copy" /\ rIdx = 1 /\ rIdx < TxLength(rTx)
    /\ wpc = "copy" /\ wIdx = 1 /\ wIdx < TxLength(wTx)
    /\ unpub # {}

\* C8 (zero-count operations): write(data, 0) and read(dst, 0) return true in
\* every state, and no step of such a call changes the value of W, of R or
\* of a ring byte.
C8_ZeroCount ==
    [][ /\ (WriterStep /\ wpc # "idle" /\ wCount = 0)
              => (W' = W /\ R' = R /\ ring' = ring)
        /\ (ReaderStep /\ rpc # "idle" /\ rCount = 0)
              => (W' = W /\ R' = R /\ ring' = ring)
        /\ (wpc' = "done" /\ wCount' = 0) => wRes'
        /\ (rpc' = "done" /\ rCount' = 0) => rRes'
      ]_vars

\* a zero-count write has returned true on a full queue next to a zero-count
\* read that returned true
C8_Witness ==
    /\ wpc = "done" /\ wCount = 0 /\ wRes
    /\ rpc = "done" /\ rCount = 0 /\ rRes
    /\ W - R = C

\* C9 (malformed descriptor): an endpoint constructed from a descriptor with
\* an invalid handle, too few grantors or a quantum other than the record
\* width is never valid (isValid() is false from the constructor's return
\* on), its availableToRead() returns 0, and each of its write and read calls
\* returns false (none of them traps or runs into undefined behaviour).
\* checked under SpecBind
C9_MalformedIsInvalid ==
    \A e \in Endpoints :
        (Malformed(desc[e]) /\ life[e] # "unbound") =>
            /\ ~isValid(e)
            /\ life[e] = "bound"
            /\ e = "writer" =>
                  /\ wpc # "fault"
                  /\ (wpc = "avail" /\ wAvail.w # None /\ wAvail.r # None)
                        => availableToRead(wAvail.w, wAvail.r) = 0
                  /\ wpc = "done" => ~wRes
            /\ e = "reader" =>
                  /\ rpc # "fault"
                  /\ (rpc = "avail" /\ rAvail.w # None /\ rAvail.r # None)
                        => availableToRead(rAvail.w, rAvail.r) = 0
                  /\ rpc = "done" => ~rRes

\* C10 (monotonicity): no step makes W or R smaller.
C10_Monotonic == [][W' >= W /\ R' >= R]_vars

\* both counters have advanced past the ring size and the producer is about
\* to commit again
C10_Witness ==
    /\ W > C /\ R > C
    /\ wpc = "commit" /\ TxLength(wTx) > 0

\* shorthands of C11: the smaller of two numbers; whether the producer's (the
\* consumer's) call holds a transaction that beginWrite (beginRead) made; and
\* whether two runs are the same run, in address and in length
Min(a, b) == IF a < b THEN a ELSE b
WriterHasTx == wpc \in {"copy", "commit"} \/ (wpc = "done" /\ wRes)
ReaderHasTx == rpc \in {"copy", "commit"} \/ (rpc = "done" /\ rRes)
SameRun(a, b) == a.length = b.length /\ a.address = b.address

\* C11 as stated (transaction split): a transaction of n bytes that begins at
\* counter value p, offset = p mod C, is a first run at ring index offset of
\* length min(n, C - offset) and a second run at ring index 0 of length
\* n - min(n, C - offset).
C11_SecondRunAtRingStart ==
    /\ WriterHasTx =>
          LET n == SizeofT * wCount
              offset == wAvail.w % C
          IN  /\ SameRun(wTx.first, [address |-> offset, length |-> Min(n, C - offset)])
              /\ SameRun(wTx.second, [address |-> 0, length |-> n - Min(n, C - offset)])
    /\ ReaderHasTx =>
          LET n == SizeofT * rCount
              offset == rAvail.r % C
          IN  /\ SameRun(rTx.first, [address |-> offset, length |-> Min(n, C - offset)])
              /\ SameRun(rTx.second, [address |-> 0, length |-> n - Min(n, C - offset)])

\* the split of n bytes at offset, as C11 amended states it
SplitAt(offset, n) ==
    [first |-> [address |-> offset, length |-> Min(n, C - offset)],
     second |-> IF n > C - offset
                THEN [address |-> 0, length |-> n - (C - offset)]
                ELSE NoRegion]
IsSplitAt(tx, offset, n) ==
    /\ SameRun(tx.first, SplitAt(offset, n).first)
    /\ SameRun(tx.second, SplitAt(offset, n).second)

\* C11 amended (transaction split): the first run starts at ring index offset
\* with length min(n, C - offset); the second run starts at ring index 0 with
\* length n - (C - offset) when n > C - offset, and is the null run
\* {nullptr, 0} otherwise.  So a request of exactly C - offset bytes is one
\* run, one byte more puts exactly one byte in the second run, and for
\* n <= C the two runs name n different ring indices.
C11_TransactionSplit ==
    /\ WriterHasTx =>
          LET n == SizeofT * wCount
              offset == wAvail.w % C
          IN  /\ IsSplitAt(wTx, offset, n)
              /\ n = C - offset => SameRun(wTx.second, NoRegion)
              /\ n = C - offset + 1 => SameRun(wTx.second, [address |-> 0, length |-> 1])
              /\ n <= C => Cardinality(TxIndices(wTx)) = n
    /\ ReaderHasTx =>
          LET n == SizeofT * rCount
              offset == rAvail.r % C
          IN  /\ IsSplitAt(rTx, offset, n)
              /\ n = C - offset => SameRun(rTx.second, NoRegion)
              /\ n = C - offset + 1 => SameRun(rTx.second, [address |-> 0, length |-> 1])
              /\ n <= C => Cardinality(TxIndices(rTx)) = n

\* the producer holds a transaction of one byte more than fits before the
\* ring end while the consumer has finished one that was a single run
C11_Witness ==
    /\ wpc = "copy" /\ SizeofT * wCount = C - (wAvail.w % C) + 1
    /\ SameRun(wTx.second, [address |-> 0, length |-> 1])
    /\ rpc = "done" /\ rRes /\ rTx.first.length > 0 /\ SameRun(rTx.second, NoRegion)

\* the ring indices that hold committed bytes no read has consumed: [R, W)
Unconsumed == {(R + k) % C : k \in 0 .. (W - R) - 1}

\* C12 (the producer never overwrites unconsumed data): while a write holds
\* its transaction (during the copy and up to the commit), the ring indices
\* it stores into are none of the indices of [R, W), none of the indices a
\* read in progress is copying from, and none of the indices whose load by
\* the consumer is not yet ordered before the store (loaded but not released
\* by a store of R, or released but not acquired by the load of R in
\* beginWrite); and from its capacity check on, the free space is never less
\* than the check observed.
C12_NoOverwrite ==
    /\ wpc \in {"copy", "commit"} =>
          /\ TxIndices(wTx) \cap Unconsumed = {}
          /\ rpc \in {"copy", "commit"} => TxIndices(wTx) \cap TxIndices(rTx) = {}
          /\ TxIndices(wTx) \cap (rdUnrel \cup rdRel) = {}
    /\ (wpc \in {"avail", "beginR", "beginW", "copy", "commit"}
            /\ wAvail.w # None /\ wAvail.r # None)
          => availableToWrite(C, wAvail.w, wAvail.r) <= C - (W - R)

\* the producer is in the middle of storing a record over ring bytes that
\* were consumed earlier while the consumer is in the middle of copying the
\* record next to it
C12_Witness ==
    /\ wpc = "copy" /\ wIdx = 1 /\ wAvail.w >= C
    /\ rpc = "copy" /\ rIdx = 1 /\ rdUnrel # {}
    /\ Unconsumed # {}

\* shorthands of C13: a step taken by the writer endpoint (by the reader
\* endpoint): a step of its constructor or destructor or of one of its calls
WriterEndpointStep == WriterStep \/ life'["writer"] # life["writer"]
ReaderEndpointStep == ReaderStep \/ life'["reader"] # life["reader"]

\* C13 as stated (single-writer discipline): in every step of every operation
\* of an endpoint's life, construction and destruction included, W is
\* modified only by the writer endpoint and R only by the reader endpoint.
\* checked under SpecLife
C13_SingleWriter ==
    [][ /\ W' # W => WriterEndpointStep
        /\ R' # R => ReaderEndpointStep
      ]_vars

\* C13 amended: outside construction the discipline holds: W changes only in
\* the writer's commitWrite and R only in the reader's commitRead, and no
\* step of a capacity check, of a copy or of a destructor changes either;
\* but the constructor of either endpoint stores 0 into both counters, so W
\* is also changed by the reader endpoint's constructor and R by the writer
\* endpoint's.
\* checked under SpecLife
C13_SingleWriterAfterConstruction ==
    [][ /\ W' # W =>
              \/ WriterStep /\ wpc = "commit"
              \/ \E e \in Endpoints : life[e] = "zeroWrite" /\ life'[e] = "mapRing"
        /\ R' # R =>
              \/ ReaderStep /\ rpc = "commit"
              \/ \E e \in Endpoints : life[e] = "zeroRead" /\ life'[e] = "zeroWrite"
        /\ (\E e \in Endpoints : life[e] \in {"bound", "unmapWrite", "unmapRing"}
                                     /\ life'[e] # life[e])
              => (W' = W /\ R' = R)
      ]_vars

\* the reader endpoint's constructor has just zeroed a W that the writer had
\* advanced, while the writer endpoint is being destroyed
C13_Witness ==
    /\ life["reader"] = "mapRing" /\ W = 0 /\ Len(written) > 0
    /\ life["writer"] = "unmapWrite"

\* shorthands of C14: endpoint e's constructor returns with all three
\* regions mapped in this step; no write and no read has committed since
\* e's constructor began to zero the counters
BecomesValid(e) == life[e] = "mapRing" /\ life'[e] = "bound"
QuietSinceZero(e) == zeroedAt[e] = <<Len(written), Len(delivered)>>

\* C14 as stated (construction resets the stream): the constructor run on a
\* well-formed descriptor stores 0 into R and into W whatever they held, and
\* at the moment the endpoint first becomes valid both are 0, so that
\* availableToRead() is 0 and availableToWrite() is C.
\* checked under SpecLife
C14_ResetAtValid ==
    [][ \A e \in Endpoints :
          /\ (life[e] = "zeroRead" /\ life'[e] = "zeroWrite") => R' = 0
          /\ (life[e] = "zeroWrite" /\ life'[e] = "mapRing") => W' = 0
          /\ BecomesValid(e) =>
                /\ W' = 0 /\ R' = 0
                /\ availableToRead(W', R') = 0
                /\ availableToWrite(C, W', R') = C
      ]_vars

\* C14 amended: the constructor stores 0 into R and into W whatever they
\* held; both are 0 when the endpoint becomes valid, availableToRead() 0 and
\* availableToWrite() C, provided the other endpoint commits no write and no
\* read between the constructor's first store and its return.
\* checked under SpecLife
C14_ResetWhenPeerQuiet ==
    [][ \A e \in Endpoints :
          /\ (life[e] = "zeroRead" /\ life'[e] = "zeroWrite") => R' = 0
          /\ (life[e] = "zeroWrite" /\ life'[e] = "mapRing") => W' = 0
          /\ (BecomesValid(e) /\ QuietSinceZero(e)) =>
                /\ W' = 0 /\ R' = 0
                /\ availableToRead(W', R') = 0
                /\ availableToWrite(C, W', R') = C
      ]_vars

\* the reader endpoint was bound to a queue that held an unread record: it
\* is valid, the record is gone, the queue reads as empty
C14_Witness ==
    /\ life["reader"] = "bound" /\ isValid("reader")
    /\ Len(written) > 0 /\ Len(delivered) = 0
    /\ QuietSinceZero("reader")
    /\ W = 0 /\ R = 0
    /\ wpc = "idle" /\ rpc = "idle"

\* shorthands of C15 and C16: the mmap calls of a full construction, in order;
\* s is a leading part of t; the grantor positions a log of munmap calls names
MapOrder == <<READPTRPOS, WRITEPTRPOS, DATAPTRPOS>>
IsPrefix(s, t) == Len(s) <= Len(t) /\ \A k \in 1 .. Len(s) : s[k] = t[k]
Positions(log) == [k \in 1 .. Len(log) |-> log[k].pos]

\* C15 (construction state machine): an endpoint constructed from a
\* malformed descriptor is Invalid (isValid() is false) and has attempted no
\* mapping; otherwise the regions are mapped in the order READ_POINTER,
\* WRITE_POINTER, DATA_RING; a failed mapping leaves the endpoint aborted,
\* never usable; and an endpoint is Valid (isValid() is true) only when all
\* three regions are mapped.
\* checked under SpecLife
C15_ConstructionStateMachine ==
    \A e \in Endpoints :
        /\ (Malformed(desc[e]) /\ life[e] # "unbound") =>
              (~isValid(e) /\ mapLog[e] = <<>>)
        /\ IsPrefix(mapLog[e], MapOrder)
        /\ ( \/ Len(mapLog[e]) >= 1 /\ mReadPtr[e] = NULLPTR
             \/ Len(mapLog[e]) >= 2 /\ mWritePtr[e] = NULLPTR
             \/ Len(mapLog[e]) >= 3 /\ mRing[e] = NULLPTR )
              => life[e] = "aborted"
        /\ (life[e] = "bound" /\ isValid(e)) =>
              /\ mapLog[e] = MapOrder
              /\ mReadPtr[e] = MAPPED /\ mWritePtr[e] = MAPPED /\ mRing[e] = MAPPED

\* C16 (unmap exactly once): the destructor issues one munmap for each region
\* the constructor mapped and none for a region never mapped; destroying an
\* Invalid endpoint (one constructed from a malformed descriptor) issues no
\* munmap at all.
\* checked under SpecLife
C16_UnmapExactlyOnce ==
    \A e \in Endpoints :
        /\ IsPrefix(Positions(unmapLog[e]), mapLog[e])
        /\ \A k \in 1 .. Len(unmapLog[e]) : unmapLog[e][k].address = MAPPED
        /\ life[e] = "destroyed" => Positions(unmapLog[e]) = mapLog[e]
        /\ Malformed(desc[e]) => unmapLog[e] = <<>>

\* the number of bytes written and not yet read
Unread == Len(written) - Len(delivered)

\* C17 (counter wrap): with counters of CounterBits bits, availableToRead()
\* computed as the modular difference W - R is the number of unread bytes,
\* lies between 0 and C, and availableToWrite() is C minus it, also when W
\* has wrapped past 2^CounterBits and R has not; the values a call's check
\* computes from its two loads give the same bounds.
\* checked under SpecWrap
C17_CounterWrap ==
    /\ availableToRead(W, R) = Unread
    /\ 0 <= availableToRead(W, R) /\ availableToRead(W, R) <= C
    /\ availableToWrite(C, W, R) = C - Unread
    /\ (rpc \in {"avail", "beginW", "beginR", "copy", "commit"}
            /\ rAvail.w # None /\ rAvail.r # None)
          => availableToRead(rAvail.w, rAvail.r) <= Unread
    /\ (wpc \in {"avail", "beginR", "beginW", "copy", "commit"}
            /\ wAvail.w # None /\ wAvail.r # None)
          => availableToWrite(C, wAvail.w, wAvail.r) <= C - Unread

\* W has wrapped and R has not, the ring is full, and the consumer's check
\* has loaded both counters
C17_Witness ==
    /\ W < R
    /\ Unread = C
    /\ rpc = "avail" /\ rAvail.w # None /\ rAvail.r # None /\ rAvail.w < rAvail.r

\* C18 (region mapper round trip): for every grantor with offset O and extent
\* E, map asks for a mapping at file offset O' = floor(O / PAGE_SIZE) *
\* PAGE_SIZE of length L = (O - O') + E and returns base + (O - O'), or null
\* on failure; unmap of the returned address with the same grantor releases
\* exactly [base, base + L).
\* checked under SpecMap
C18_MapperRoundTrip ==
    LET O == grantor.offset
        E == grantor.extent
        Oprime == (O \div PAGE_SIZE) * PAGE_SIZE
        L == (O - Oprime) + E
    IN  /\ mpc \in {"mapped", "failed", "unmapped"} =>
              mapReq = [offset |-> Oprime, length |-> L]
        /\ mpc \in {"mapped", "unmapped"} => mapAddr = mapBase + (O - Oprime)
        /\ mpc = "failed" => mapAddr = 0
        /\ mpc = "unmapped" => unmapReq = [address |-> mapBase, length |-> L]

\* every record of a transaction lies in one piece: its SizeofT bytes are at
\* consecutive ring indices
RecordsWhole(tx) ==
    \A j \in 0 .. TxLength(tx) - 1 :
        (j % SizeofT # SizeofT - 1) => TxIndex(tx, j + 1) = TxIndex(tx, j) + 1

\* C19 (record alignment): on a queue whose capacity C is a multiple of the
\* record width Q, W mod Q = 0 and R mod Q = 0 in every state, so
\* availableToRead() and availableToWrite(), on the counters and on the
\* values a check loaded, are multiples of Q, and no record of a transaction
\* is split across the ring boundary.
C19_RecordAlignment ==
    (C % SizeofT = 0) =>
        /\ W % SizeofT = 0 /\ R % SizeofT = 0
        /\ availableToRead(W, R) % SizeofT = 0
        /\ availableToWrite(C, W, R) % SizeofT = 0
        /\ (wAvail.w # None /\ wAvail.r # None)
              => availableToWrite(C, wAvail.w, wAvail.r) % SizeofT = 0
        /\ (rAvail.w # None /\ rAvail.r # None)
              => availableToRead(rAvail.w, rAvail.r) % SizeofT = 0
        /\ WriterHasTx => (wTx.first.length % SizeofT = 0 /\ RecordsWhole(wTx))
        /\ ReaderHasTx => (rTx.first.length % SizeofT = 0 /\ RecordsWhole(rTx))

\* on a ring of a whole number of records, a write of two records is being
\* copied across the ring boundary, one record on each side
C19_Witness ==
    /\ C % SizeofT = 0
    /\ wpc = "copy" /\ wCount = 2
    /\ wTx.first.length = SizeofT /\ wTx.second.length = SizeofT
    /\ W > 0

\* the largest number of steps a write (a read) in progress still has to
\* take before it has returned
WRank ==
    CASE wpc = "avail" -> 6 + SizeofT * wCount
                            + (IF wAvail.w = None THEN 1 ELSE 0)
                            + (IF wAvail.r = None THEN 1 ELSE 0)
      [] wpc = "beginR" -> 5 + SizeofT * wCount
      [] wpc = "beginW" -> 4 + SizeofT * wCount
      [] wpc = "copy" -> 3 + (TxLength(wTx) - wIdx)
      [] wpc = "commit" -> 2
      [] wpc = "done" -> 1
      [] OTHER -> 0
RRank ==
    CASE rpc = "avail" -> 6 + SizeofT * rCount
                            + (IF rAvail.w = None THEN 1 ELSE 0)
                            + (IF rAvail.r = None THEN 1 ELSE 0)
      [] rpc = "beginW" -> 5 + SizeofT * rCount
      [] rpc = "beginR" -> 4 + SizeofT * rCount
      [] rpc = "copy" -> 3 + (TxLength(rTx) - rIdx)
      [] rpc = "commit" -> 2
      [] rpc = "done" -> 1
      [] OTHER -> 0
MaxRank == 8 + SizeofT * MaxCount

\* C20 (progress): on a valid queue with C >= Q no state refuses both a
\* one-record write and a one-record read; a call in progress can always
\* take its next step whatever the peer is doing, each of its steps brings
\* its return nearer, and it returns within 8 + Q * count of its own steps;
\* and when the producer keeps retrying a one-record write and the consumer
\* a one-record read, every refused write is eventually followed by a write
\* that returns true, and every byte written is eventually delivered.
\* checked under SpecLive
C20_Progress ==
    /\ [](C >= SizeofT =>
            ~(availableToWrite(C, W, R) < SizeofT /\ availableToRead(W, R) < SizeofT))
    /\ []((wpc # "idle" => ENABLED Write) /\ (rpc # "idle" => ENABLED Read))
    /\ [](WRank <= MaxRank /\ RRank <= MaxRank)
    /\ [][ /\ (WriterStep /\ wpc # "idle") => WRank' < WRank
           /\ (ReaderStep /\ rpc # "idle") => RRank' < RRank ]_vars
    /\ (wpc = "done" /\ ~wRes) ~> (wpc = "done" /\ wRes)
    /\ \A k \in 1 .. MaxBytes : (Len(written) >= k) ~> (Len(delivered) >= k)

\* the producer's one-record write has just been refused on a ring with no
\* room for a record, after records have been delivered, while the consumer
\* is between two calls
C20_Witness ==
    /\ wpc = "done" /\ ~wRes /\ wCount = 1
    /\ W - R > C - SizeofT
    /\ Len(delivered) > 0
    /\ rpc = "idle"

====
